---- MODULE Spec2Model ----
(***************************************************************************)
(* Model of encryption_experiment.py: three persistence strategies         *)
(* (Baseline, AES, Hybrid) benchmarked by main() against a relational      *)
(* store.  Bytes are naturals below 256, byte strings and texts are        *)
(* sequences, the store is a set of existing tables with their committed   *)
(* rows, and the library calls (AES-GCM, RSA-OAEP, the MySQL connector,    *)
(* Faker, the clock) are modelled by what the code relies on.              *)
(***************************************************************************)
EXTENDS Integers, Sequences, FiniteSets, TLC

\* ------------------------------------------------------------------ bounds
\* Largest dataset (number of records) a strategy function is called with.
MaxN == 3
\* Largest batch size configured for main.
MaxBatch == 2
\* Largest configured chunk size.
MaxChunk == 2
\* Largest number of rows an earlier run left behind in each table.
MaxStale == 1
\* Largest number of statements the store fails in one run of the program.
MaxFaults == 1

\* ------------------------------------------------------- program constants
\* cell[:16]
NonceLen == 16
\* cell[16:32] ends at offset 32, so the tag is 16 bytes long
TagEnd == 32
\* get_random_bytes(32)
KeyLen == 32
\* RSA.generate(2048): an OAEP ciphertext is 2048 / 8 bytes long
RsaLen == 256
\* size_bytes / 1024
KB == 1024

Strategies == {"Baseline", "AES", "Hybrid"}

\* The fixed order of the strategies in one batch iteration of main.
StrategyOrder == <<"Baseline", "AES", "Hybrid">>

\* The key of `results` each strategy's measurements are appended under.
ResultKey(m) ==
  CASE m = "Baseline" -> "Baseline"
    [] m = "AES"      -> "AES-Only"
    [] m = "Hybrid"   -> "Hybrid"

\* The keys the results dictionary is created with.
ResultKeys == {"Baseline", "AES", "Hybrid"}

\* ---------------------------------------------------------------- helpers
Min(a, b) == IF a < b THEN a ELSE b
Max(a, b) == IF a > b THEN a ELSE b

RECURSIVE Sum(_)
Sum(s) == IF s = <<>> THEN 0 ELSE Head(s) + Sum(Tail(s))

RECURSIVE Flatten(_)
Flatten(ss) == IF ss = <<>> THEN <<>> ELSE Head(ss) \o Flatten(Tail(ss))

\* Python's s[a:b] for 0 <= a <= b: both ends are clipped to the length.
Slice(s, a, b) == SubSeq(s, Min(a, Len(s)) + 1, Min(b, Len(s)))

\* Python's s[a:]
SliceFrom(s, a) == SubSeq(s, Min(a, Len(s)) + 1, Len(s))

\* ------------------------------------------------------------------ texts
\* A text is a sequence of code points below 2048; str.encode('utf-8') writes
\* a code point below 128 as one byte and the others as two.
Utf8Char(c) == IF c < 128 THEN <<c>> ELSE <<192 + (c \div 64), 128 + (c % 64)>>

RECURSIVE Utf8Encode(_)
Utf8Encode(t) == IF t = <<>> THEN <<>> ELSE Utf8Char(Head(t)) \o Utf8Encode(Tail(t))

\* The inverse reading of a UTF-8 byte string of such code points.
RECURSIVE Utf8Decode(_)
Utf8Decode(b) ==
  IF b = <<>> THEN <<>>
  ELSE IF Head(b) < 128 THEN <<Head(b)>> \o Utf8Decode(Tail(b))
  ELSE IF Len(b) >= 2
       THEN <<(Head(b) - 192) * 64 + (b[2] - 128)>> \o Utf8Decode(Tail(Tail(b)))
       ELSE <<-1>>

\* -------------------------------------------------------------- randomness
\* What the generators draw: each draw is one of two samples.
Rand == {1, 2}

\* get_random_bytes(32) for the draw r.
RandomKey(r) == [j \in 1..KeyLen |-> (37 * r + j) % 256]

\* The draws of the n rows of a run: all alike, or alternating.
RowDraws(n) == {[j \in 1..n |-> ((r + j * d) % 2) + 1] : r \in 0..1, d \in 0..1}

\* The 16-byte nonce AES.new(key, AES.MODE_GCM) draws for field f of a row.
RandomNonce(r, f) == [j \in 1..NonceLen |-> (11 * r + 5 * f + j) % 256]

\* ----------------------------------------------------------------- AES-GCM
\* The keystream byte at position j of (key, nonce).
Keystream(ks, j) == (ks + 7 * j) % 256

\* What a (key, nonce) pair seeds the keystream with.
KeystreamSeed(key, nonce) == (Sum(key) + 3 * Sum(nonce)) % 256

GcmEncrypt(key, nonce, pt) ==
  LET ks == KeystreamSeed(key, nonce)
  IN  [j \in 1..Len(pt) |-> (pt[j] + Keystream(ks, j)) % 256]

GcmDecrypt(key, nonce, ct) ==
  LET ks == KeystreamSeed(key, nonce)
  IN  [j \in 1..Len(ct) |-> (ct[j] + 256 - Keystream(ks, j)) % 256]

\* The 16-byte authentication tag of a ciphertext under (key, nonce).
GcmTag(key, nonce, ct) ==
  LET h == (5 * Sum(key) + 3 * Sum(nonce) + 7 * Sum(ct) + Len(ct)) % 256
  IN  [j \in 1..(TagEnd - NonceLen) |-> (h + j) % 256]

\* cipher.nonce + tag + ciphertext
EncryptField(key, nonce, text) ==
  LET ct == GcmEncrypt(key, nonce, Utf8Encode(text))
  IN  nonce \o GcmTag(key, nonce, ct) \o ct

\* The outcome of a decode: ok with the plaintext bytes, or a raised error.
Ok(v) == [ok |-> TRUE, val |-> v]
Failure == [ok |-> FALSE, val |-> <<>>]

\* Variant of CellNonce: the 12-byte nonce GCM is mostly used with.
CellNonce_12(cell) == Slice(cell, 0, 12)

\* The nonce, tag and ciphertext parts of a stored cell.
CellNonce(cell) == Slice(cell, 0, NonceLen)
CellTag(cell) == Slice(cell, NonceLen, TagEnd)
CellCiphertext(cell) == SliceFrom(cell, TagEnd)

\* AES.new(key, MODE_GCM, nonce=nonce) raises on an empty nonce and
\* decrypt_and_verify raises when the tag does not verify.
DecryptCell(key, cell) ==
  LET nonce == CellNonce(cell)
      tag == CellTag(cell)
      ciphertext == CellCiphertext(cell)
  IN  IF nonce = <<>> THEN Failure
      ELSE IF tag # GcmTag(key, nonce, ciphertext) THEN Failure
      ELSE Ok(GcmDecrypt(key, nonce, ciphertext))

\* ---------------------------------------------------------------- RSA-OAEP
\* The wrap of msg under the public key of pair kp with padding seed sd: a
\* header, the masked message and a filler that unwrapping checks.
RsaMask(kp, sd, j) == (13 * kp + 17 * sd + j) % 256

RsaEncrypt(kp, sd, msg) ==
  [j \in 1..RsaLen |->
     IF j = 1 THEN sd
     ELSE IF j <= 1 + Len(msg) THEN (msg[j - 1] + RsaMask(kp, sd, j)) % 256
     ELSE (RsaMask(kp, sd, j) + Len(msg)) % 256]

\* rsa_dec.decrypt raises on a ciphertext of the wrong length or padding.
RsaDecrypt(kp, blob) ==
  IF Len(blob) # RsaLen THEN Failure
  ELSE LET sd == blob[1]
           msg == [j \in 1..KeyLen |-> (blob[j + 1] + 256 - RsaMask(kp, sd, j + 1)) % 256]
       IN  IF \A j \in (KeyLen + 2)..RsaLen : blob[j] = (RsaMask(kp, sd, j) + KeyLen) % 256
           THEN Ok(msg)
           ELSE Failure

\* ----------------------------------------------------------------- records
\* The records the generator draws from: (name, email, notes) texts.
Records ==
  { << <<65>>, <<233>>, <<65, 66>> >>,
    << <<66>>, <<97>>, <<233, 67>> >> }

\* Variant of generate_dummy_data: the loop runs over range(1, n).
generate_dummy_data_short(n) == [1..(n - 1) -> Records]

\* generate_dummy_data(n): the datasets of exactly n records.
generate_dummy_data(n) == [1..n -> Records]

\* The row a strategy stores for a record: the texts for Baseline; the three
\* encrypted fields under the static key for AES; for Hybrid the fields under
\* the row key followed by the row key wrapped under the public key.
BaselineRow(rec) == rec

AesRow(static_key, r, rec) ==
  [f \in 1..3 |-> EncryptField(static_key, RandomNonce(r, f), rec[f])]

HybridRow(kp, r, rec) ==
  LET row_key == RandomKey(r)
  IN  [f \in 1..3 |-> EncryptField(row_key, RandomNonce(r, f), rec[f])]
        \o <<RsaEncrypt(kp, r, row_key)>>

\* The read loop's body for one fetched row: the plaintexts of its three
\* cells, or the failure the try block raised.
AesDecodeRow(static_key, row) ==
  LET out == [f \in 1..3 |-> DecryptCell(static_key, row[f])]
  IN  IF \A f \in 1..3 : out[f].ok THEN Ok([f \in 1..3 |-> out[f].val]) ELSE Failure

HybridDecodeRow(kp, row) ==
  LET row_key == RsaDecrypt(kp, row[4])
  IN  IF ~row_key.ok THEN Failure ELSE AesDecodeRow(row_key.val, row)

\* Variant of Chunk: the slice stops one row early.
Chunk_short(rows, i, size) == Slice(rows, i, i + size - 1)

\* for i in range(0, len(rows), CHUNK_SIZE): chunk = rows[i:i + CHUNK_SIZE]
Chunk(rows, i, size) == Slice(rows, i, i + size)

\* Variant of DecodeLoopNext: the except clause is `break`.
DecodeLoopNext_break(ok, idx, n) == IF ok THEN idx + 1 ELSE n + 1

\* Where the read loop goes after the row at index idx of n rows was decoded
\* (ok) or raised (the except clause is `continue`): the next row.
DecodeLoopNext(ok, idx, n) == idx + 1

\* OCTET_LENGTH summed over the relevant columns of the rows of a table.
OctetLength(m, cell) == IF m = "Baseline" THEN Len(Utf8Encode(cell)) ELSE Len(cell)

RowOctets(m, row) == Sum([c \in 1..Len(row) |-> OctetLength(m, row[c])])

SizeBytes(m, rows) == Sum([j \in 1..Len(rows) |-> RowOctets(m, rows[j])])

\* round(size_bytes / 1024, 2), in hundredths of a KB (ties to even).
StorageKb(size_bytes) ==
  LET q == (size_bytes * 100) \div KB
      rem == (size_bytes * 100) % KB
  IN  IF 2 * rem > KB \/ (2 * rem = KB /\ q % 2 = 1) THEN q + 1 ELSE q

\* The row an earlier run of strategy m left in its table (record rec, draw r).
StaleRow(m, r, rec) ==
  CASE m = "Baseline" -> BaselineRow(rec)
    [] m = "AES"      -> AesRow(RandomKey(r), r, rec)
    [] m = "Hybrid"   -> HybridRow(r, r, rec)

\* ------------------------------------------------------------------- state
VARIABLES
  pc,              \* where main is
  batch,           \* index of the current batch size in batch_sizes
  batch_sizes,     \* BATCH_SIZES
  chunk_size,      \* CHUNK_SIZE
  tick,            \* the clock: ms per row handled
  data,            \* the dataset of the current batch
  results,         \* main's results dictionary
  exc,             \* the exception main ended with, or "none"
  setup_err,       \* setup_database caught an Error and printed it
  exists,          \* the tables that exist in the store
  tables,          \* the committed rows of each table
  conns,           \* the connections that are open
  cur,             \* the strategy being run
  rpc,             \* where the strategy function is
  static_key,      \* run_aes: the key shared by all rows
  key_pair,        \* run_hybrid: the RSA key pair
  encrypted_rows,  \* the encoded rows of the write phase
  i,               \* the chunk loop's offset
  txn,             \* the rows inserted on the open connection, not yet committed
  write_ms,        \* the write phase's clock reading
  fetched,         \* the rows the read phase selected
  ridx,            \* the read loop's position in fetched
  ret,             \* what the strategy function returned
  s,               \* what get_exact_storage_size returned
  rows_out,        \* the rows of the final table printed so far
  chunks,          \* history: the chunks handed to executemany, in order
  table0,          \* history: the table's rows when the write phase started
  failed,          \* history: the indexes of the fetched rows whose decode raised
  plain,           \* history: what the decode of each fetched row produced
  seen,            \* history: the dataset each strategy function was called with
  gens,            \* history: the datasets generate_dummy_data returned
  faults           \* history: the number of statements the store has failed

vars ==
  <<pc, batch, batch_sizes, chunk_size, tick, data, results, exc, setup_err, exists,
    tables, conns, cur, rpc, static_key, key_pair, encrypted_rows, i, txn,
    write_ms, fetched, ridx, ret, s, rows_out, chunks, table0, failed, plain,
    seen, gens, faults>>

mainVars == <<pc, batch, batch_sizes, chunk_size, tick, data, results, exc, setup_err, s, rows_out, gens>>
runVars ==
  <<cur, rpc, static_key, key_pair, encrypted_rows, i, txn, write_ms, fetched,
    ridx, ret, chunks, table0, failed, plain, seen>>
storeVars == <<exists, tables, conns>>

\* What the clock shows for one row handled, in ms: nothing (a clock too
\* coarse to see the phase) or some time.
Ticks == {0, 3}

\* (time.time() - start) * 1000 for a phase that handled n rows.
Elapsed(n) == tick * n

NoKey == <<>>
NoRet == [write_ms |-> -1, read_ms |-> -1]
EmptyResults == [k \in ResultKeys |-> [w |-> <<>>, r |-> <<>>, s |-> <<>>]]

\* The stores a run can find: empty tables, or the rows earlier runs left.
StaleTables(n, r) ==
  [m \in Strategies |-> [j \in 1..n |-> StaleRow(m, r, CHOOSE rec \in Records : rec[1] = <<65>>)]]

\* The configured batch sizes: ascending sequences of one or two sizes.
BatchConfigs == {<<a>> : a \in 1..MaxBatch} \cup {<<1, b>> : b \in 2..MaxBatch}

RunFresh ==
  /\ static_key = NoKey /\ key_pair = 0 /\ encrypted_rows = <<>>
  /\ i = 0 /\ txn = <<>> /\ write_ms = -1 /\ fetched = <<>> /\ ridx = 0
  /\ ret = NoRet /\ chunks = <<>> /\ table0 = <<>> /\ failed = {} /\ plain = <<>>

InitCommon ==
  /\ chunk_size \in 1..MaxChunk
  /\ tick \in Ticks
  /\ \E n \in 0..MaxStale, r \in Rand :
       /\ (n = 0 => r = 1)
       /\ tables = StaleTables(n, r)
       /\ exists \in IF n = 0 THEN {{}, Strategies} ELSE {Strategies}
  /\ conns = {}
  /\ exc = "none" /\ setup_err = FALSE /\ faults = 0
  /\ s = 0 /\ rows_out = <<>>
  /\ seen = [m \in Strategies |-> <<>>]
  /\ RunFresh

\* The state main starts in.
Init ==
  /\ InitCommon
  /\ pc = "setup" /\ batch = 1 /\ cur = "none" /\ rpc = "idle"
  /\ results = EmptyResults
  /\ batch_sizes \in BatchConfigs
  /\ data = <<>> /\ gens = <<>>

\* A strategy function called directly on a dataset by a driver.
InitRun ==
  /\ InitCommon
  /\ pc = "driver" /\ batch = 1
  /\ results = EmptyResults
  /\ cur \in Strategies /\ rpc = "connect"
  /\ \E n \in 1..MaxN :
       /\ data \in generate_dummy_data(n)
       /\ batch_sizes = <<n>>
  /\ gens = <<data>>

\* --------------------------------------------------------------- the store
\* A statement of the connector raises mysql.connector.Error: the store is
\* unreachable or refuses the statement.
Fault == faults < MaxFaults /\ faults' = faults + 1
NoFault == faults' = faults

\* ------------------------------------------------- the strategy functions
\* The rows the write phase inserts: the dataset itself for run_baseline.
Rows == IF cur = "Baseline" THEN data ELSE encrypted_rows

\* conn = mysql.connector.connect(**DB_CONFIG); cursor = conn.cursor()
RunConnect ==
  /\ rpc = "connect"
  /\ seen' = [seen EXCEPT ![cur] = data]
  /\ table0' = tables[cur]
  /\ \E connected \in BOOLEAN :
       IF connected
       THEN /\ conns' = conns \cup {"run"}
            /\ rpc' = IF cur = "Baseline" THEN "insert" ELSE "encrypt"
            /\ NoFault
       ELSE /\ conns' = conns
            /\ rpc' = "raised"
            /\ Fault
  /\ UNCHANGED <<mainVars, exists, tables, cur, static_key, key_pair,
                 encrypted_rows, i, txn, write_ms, fetched, ridx, ret, chunks,
                 failed, plain>>

\* The key material of the run and the encoding of every row of the dataset.
RunEncrypt ==
  /\ rpc = "encrypt"
  /\ \E k \in Rand, nd \in RowDraws(Len(data)) :
       IF cur = "AES"
       THEN /\ static_key' = RandomKey(k)
            /\ key_pair' = key_pair
            /\ encrypted_rows' = [j \in 1..Len(data) |-> AesRow(RandomKey(k), nd[j], data[j])]
       ELSE /\ key_pair' = k
            /\ static_key' = static_key
            /\ encrypted_rows' = [j \in 1..Len(data) |-> HybridRow(k, nd[j], data[j])]
  /\ rpc' = "insert"
  /\ UNCHANGED <<mainVars, storeVars, faults, cur, i, txn, write_ms, fetched, ridx, ret,
                 chunks, table0, failed, plain, seen>>

\* One turn of the chunk loop: cursor.executemany(INSERT ..., chunk)
RunInsert ==
  /\ rpc = "insert"
  /\ i < Len(Rows)
  /\ \E inserted \in BOOLEAN :
       IF inserted /\ cur \in exists
       THEN /\ txn' = txn \o Chunk(Rows, i, chunk_size)
            /\ chunks' = Append(chunks, Chunk(Rows, i, chunk_size))
            /\ i' = i + chunk_size
            /\ rpc' = rpc
            /\ NoFault
       ELSE /\ rpc' = "raised"
            /\ IF cur \in exists THEN Fault ELSE NoFault
            /\ UNCHANGED <<txn, chunks, i>>
  /\ UNCHANGED <<mainVars, storeVars, cur, static_key, key_pair, encrypted_rows,
                 write_ms, fetched, ridx, ret, table0, failed, plain, seen>>

\* conn.commit(); write_ms = (time.time() - start) * 1000
RunCommit ==
  /\ rpc = "insert"
  /\ i >= Len(Rows)
  /\ \E committed \in BOOLEAN :
       IF committed
       THEN /\ tables' = [tables EXCEPT ![cur] = @ \o txn]
            /\ txn' = <<>>
            /\ write_ms' = Elapsed(Len(Rows))
            /\ rpc' = "select"
            /\ NoFault
       ELSE /\ rpc' = "raised"
            /\ Fault
            /\ UNCHANGED <<tables, txn, write_ms>>
  /\ UNCHANGED <<mainVars, exists, conns, cur, static_key, key_pair,
                 encrypted_rows, i, fetched, ridx, ret, chunks, table0, failed,
                 plain, seen>>

\* cursor.execute(SELECT ...); fetched = cursor.fetchall()
RunSelect ==
  /\ rpc = "select"
  /\ \E selected \in BOOLEAN :
       IF selected /\ cur \in exists
       THEN /\ fetched' = tables[cur] \o txn
            /\ ridx' = 1
            /\ rpc' = IF cur = "Baseline" THEN "close" ELSE "decode"
            /\ NoFault
       ELSE /\ rpc' = "raised"
            /\ IF cur \in exists THEN Fault ELSE NoFault
            /\ UNCHANGED <<fetched, ridx>>
  /\ UNCHANGED <<mainVars, storeVars, cur, static_key, key_pair, encrypted_rows,
                 i, txn, write_ms, ret, chunks, table0, failed, plain, seen>>

\* What the try block of the read loop does with one fetched row.
DecodeRow(row) ==
  IF cur = "AES" THEN AesDecodeRow(static_key, row) ELSE HybridDecodeRow(key_pair, row)

\* One turn of the read loop: for row in fetched: try ... except: continue
RunDecode ==
  /\ rpc = "decode"
  /\ ridx <= Len(fetched)
  /\ LET out == DecodeRow(fetched[ridx])
     IN  /\ plain' = Append(plain, out)
         /\ failed' = IF out.ok THEN failed ELSE failed \cup {ridx}
         /\ ridx' = DecodeLoopNext(out.ok, ridx, Len(fetched))
  /\ UNCHANGED <<mainVars, storeVars, faults, cur, rpc, static_key, key_pair,
                 encrypted_rows, i, txn, write_ms, fetched, ret, chunks, table0,
                 seen>>

\* read_ms = (time.time() - start) * 1000; conn.close(); return write_ms, read_ms
RunReturn ==
  /\ rpc \in {"decode", "close"}
  /\ rpc = "decode" => ridx > Len(fetched)
  /\ ret' = [write_ms |-> write_ms, read_ms |-> Elapsed(Len(fetched))]
  /\ conns' = conns \ {"run"}
  /\ rpc' = "returned"
  /\ UNCHANGED <<mainVars, faults, exists, tables, cur, static_key, key_pair,
                 encrypted_rows, i, txn, write_ms, fetched, ridx, chunks, table0,
                 failed, plain, seen>>

RunStep == RunConnect \/ RunEncrypt \/ RunInsert \/ RunCommit \/ RunSelect \/ RunDecode \/ RunReturn

NextRun == RunStep

SpecRun == InitRun /\ [][NextRun]_vars

\* -------------------------------------------------------------------- main
\* The statements of setup_database that touch the store, in order: connect
\* to the server, CREATE DATABASE, connect to the database, three DROP TABLE
\* IF EXISTS, three CREATE TABLE.  SetupSteps is their number.
SetupSteps == 9

\* The tables dropped, and the tables created, when the statement at position
\* f raised (f = 0: none raised): the statements before f took effect.
SetupDropped(f) ==
  IF f = 0 \/ f >= 7 THEN Strategies
  ELSE {StrategyOrder[k] : k \in 1..Max(f - 4, 0)}

SetupCreated(f) ==
  IF f = 0 THEN Strategies
  ELSE {StrategyOrder[k] : k \in 1..Max(f - 7, 0)}

\* The connection setup_database leaves open when statement f raised: the
\* except clause prints the error and does not close it.
SetupLeak(f) ==
  IF f = 2 THEN {"setup1"} ELSE IF f >= 4 THEN {"setup2"} ELSE {}

\* setup_database(), and the creation of the results dictionary.
setup_database ==
  /\ pc = "setup"
  /\ \E f \in 0..SetupSteps :
       /\ setup_err' = (f # 0)
       /\ IF f # 0 THEN Fault ELSE NoFault
       /\ exists' = (exists \ SetupDropped(f)) \cup SetupCreated(f)
       /\ tables' = [m \in Strategies |-> IF m \in SetupDropped(f) THEN <<>> ELSE tables[m]]
       /\ conns' = conns \cup SetupLeak(f)
  /\ results' = EmptyResults
  /\ pc' = "generate"
  /\ UNCHANGED <<batch, batch_sizes, chunk_size, tick, data, exc, s, rows_out, gens, runVars>>

\* for count in BATCH_SIZES: data = generate_dummy_data(count), and the call
\* of the first strategy function.
Generate ==
  /\ pc = "generate"
  /\ batch <= Len(batch_sizes)
  /\ \E d \in generate_dummy_data(batch_sizes[batch]) :
       /\ data' = d
       /\ gens' = Append(gens, d)
  /\ cur' = StrategyOrder[1]
  /\ rpc' = "connect"
  /\ pc' = "run"
  /\ UNCHANGED <<batch, batch_sizes, chunk_size, tick, results, exc, setup_err, s,
                 rows_out, storeVars, faults, static_key, key_pair, encrypted_rows, i,
                 txn, write_ms, fetched, ridx, ret, chunks, table0, failed,
                 plain, seen>>

\* An Error raised in a strategy function is not caught by main.
Propagate ==
  /\ pc = "run"
  /\ rpc = "raised"
  /\ exc' = "Error"
  /\ pc' = "exit"
  /\ UNCHANGED <<batch, batch_sizes, chunk_size, tick, data, results, setup_err, s,
                 rows_out, gens, storeVars, faults, runVars>>

\* s = get_exact_storage_size(table, method): 0.0 when the connection or the
\* query raised Error (the connection is then not closed).
get_exact_storage_size ==
  /\ pc = "run"
  /\ rpc = "returned"
  /\ \E o \in {"ok", "connect_error", "query_error"} :
       IF o = "connect_error"
       THEN /\ s' = 0
            /\ conns' = conns
            /\ Fault
       ELSE IF o = "ok" /\ cur \in exists
       THEN /\ s' = StorageKb(SizeBytes(cur, tables[cur]))
            /\ conns' = conns
            /\ NoFault
       ELSE /\ s' = 0
            /\ conns' = conns \cup {"size"}
            /\ IF cur \in exists THEN Fault ELSE NoFault
  /\ pc' = "record"
  /\ UNCHANGED <<batch, batch_sizes, chunk_size, tick, data, results, exc, setup_err,
                 rows_out, gens, exists, tables, runVars>>

\* The position of strategy m in the fixed order.
OrderOf(m) == CHOOSE k \in 1..Len(StrategyOrder) : StrategyOrder[k] = m

\* results[key]['w'].append(w) ... ['r'].append(r) ... ['s'].append(s), then
\* the call of the next strategy function; a key that is not in the
\* dictionary raises KeyError.
Record ==
  /\ pc = "record"
  /\ IF ResultKey(cur) \in DOMAIN results
     THEN /\ results' = [results EXCEPT ![ResultKey(cur)] =
                           [w |-> Append(@.w, ret.write_ms),
                            r |-> Append(@.r, ret.read_ms),
                            s |-> Append(@.s, s)]]
          /\ exc' = exc
          /\ IF OrderOf(cur) < Len(StrategyOrder)
             THEN /\ cur' = StrategyOrder[OrderOf(cur) + 1]
                  /\ rpc' = "connect"
                  /\ pc' = "run"
             ELSE /\ cur' = cur
                  /\ rpc' = "idle"
                  /\ pc' = "reset"
     ELSE /\ exc' = "KeyError"
          /\ pc' = "exit"
          /\ UNCHANGED <<results, cur, rpc>>
  /\ static_key' = NoKey /\ key_pair' = 0 /\ encrypted_rows' = <<>>
  /\ i' = 0 /\ txn' = <<>> /\ write_ms' = -1 /\ fetched' = <<>> /\ ridx' = 0
  /\ ret' = NoRet /\ chunks' = <<>> /\ table0' = <<>> /\ failed' = {} /\ plain' = <<>>
  /\ UNCHANGED <<batch, batch_sizes, chunk_size, tick, data, setup_err, s, rows_out,
                 gens, storeVars, faults, seen>>

Next == setup_database \/ Generate \/ RunStep \/ Propagate \/ get_exact_storage_size \/ Record

Spec == Init /\ [][Next]_vars

\* ------------------------------------------------ the end of main's loop body
\* The statements of the cleanup, in order: connect, TRUNCATE of the three
\* tables.  The position of the first one that raises when the store fails
\* statement f (0: none) and a TRUNCATE of a missing table raises; 0 if none.
ResetSteps == 4

ResetRaisedAt(f) ==
  IF f = 1 THEN 1
  ELSE LET bad == {p \in 2..ResetSteps : p = f \/ StrategyOrder[p - 1] \notin exists}
       IN  IF bad = {} THEN 0 ELSE CHOOSE p \in bad : \A q \in bad : p <= q

\* The tables the cleanup truncated before statement e raised (0: all).
ResetTruncated(e) ==
  IF e = 0 THEN Strategies ELSE {StrategyOrder[k] : k \in 1..Max(e - 2, 0)}

\* conn = connect(); TRUNCATE TABLE x 3; conn.close(), then the next batch size
\* or, after the last one, the final table.
ResetTables ==
  /\ pc = "reset"
  /\ \E f \in 0..ResetSteps :
       LET e == ResetRaisedAt(f)
       IN  /\ IF e # 0 /\ e = f THEN Fault ELSE NoFault
           /\ tables' = [m \in Strategies |->
                           IF m \in ResetTruncated(e) THEN <<>> ELSE tables[m]]
           /\ conns' = IF e >= 2 THEN conns \cup {"reset"} ELSE conns
           /\ exc' = IF e # 0 THEN "Error" ELSE exc
           /\ pc' = IF e # 0 THEN "exit"
                    ELSE IF batch < Len(batch_sizes) THEN "generate" ELSE "report"
           /\ batch' = IF e = 0 THEN batch + 1 ELSE batch
  /\ UNCHANGED <<batch_sizes, chunk_size, tick, data, results, setup_err, s,
                 rows_out, gens, exists, runVars>>

\* Numbers of the final table: a quotient is kept as numerator and denominator,
\* and a division by zero as the denominator 0.
Rat(n) == [num |-> n, den |-> 1]

RatDiv(a, b) ==
  IF b.num = 0 \/ a.den = 0 \/ b.den = 0 THEN [num |-> 0, den |-> 0]
  ELSE [num |-> a.num * b.den, den |-> a.den * b.num]

\* Variant of Tps: no guard on w.
Tps_unguarded(count, w) == RatDiv(Rat(count), RatDiv(Rat(w), Rat(1000)))

\* tps = count / (w/1000) if w > 0 else 0
Tps(count, w) ==
  IF w > 0 THEN RatDiv(Rat(count), RatDiv(Rat(w), Rat(1000))) ELSE Rat(0)

\* The row of the final table printed after n rows: batch index and strategy.
ReportBatch(n) == (n \div Len(StrategyOrder)) + 1
ReportMethod(n) == StrategyOrder[(n % Len(StrategyOrder)) + 1]

\* One turn of: for i, count in enumerate(BATCH_SIZES): for m in [...]: print
PrintRow ==
  /\ pc = "report"
  /\ Len(rows_out) < Len(batch_sizes) * Len(StrategyOrder)
  /\ LET bi == ReportBatch(Len(rows_out))
         m == ReportMethod(Len(rows_out))
         count == batch_sizes[bi]
         w == results[m].w[bi]
         tps == Tps(count, w)
     IN  IF tps.den = 0
         THEN /\ exc' = "ZeroDivisionError"
              /\ pc' = "exit"
              /\ rows_out' = rows_out
         ELSE /\ rows_out' = Append(rows_out,
                   [count |-> count, m |-> m, w |-> w, r |-> results[m].r[bi],
                    tps |-> tps, s |-> results[m].s[bi]])
              /\ UNCHANGED <<exc, pc>>
  /\ UNCHANGED <<batch, batch_sizes, chunk_size, tick, data, results, setup_err,
                 s, gens, storeVars, faults, runVars>>

\* The final table is printed; the charts follow.
Finish ==
  /\ pc = "report"
  /\ Len(rows_out) = Len(batch_sizes) * Len(StrategyOrder)
  /\ pc' = "exit"
  /\ UNCHANGED <<batch, batch_sizes, chunk_size, tick, data, results, exc,
                 setup_err, s, rows_out, gens, storeVars, faults, runVars>>

\* main at the cleanup of its last batch, with the measurements of every
\* batch recorded.
InitTail ==
  /\ InitCommon
  /\ exists = Strategies
  /\ pc = "reset" /\ cur = "Hybrid" /\ rpc = "idle"
  /\ batch_sizes \in BatchConfigs
  /\ batch = Len(batch_sizes)
  /\ data \in generate_dummy_data(batch_sizes[batch])
  /\ gens = <<data>>
  /\ \E r \in Ticks, kb \in {0, 7} :
       results \in [ResultKeys ->
                      {[w |-> ws, r |-> [j \in 1..batch |-> r], s |-> [j \in 1..batch |-> kb]] :
                         ws \in [1..batch -> Ticks]}]

NextTail == ResetTables \/ PrintRow \/ Finish

SpecTail == InitTail /\ [][NextTail]_vars

\* ------------------------------------------------------------------ claims
AllTablesEmpty == \A m \in Strategies : tables[m] = <<>>

\* The read phase of the running strategy has its rows.
ReadPhase == rpc \in {"decode", "close", "returned"}

\* C1: with the store never failing, main ends normally and every strategy
\* holds one result (w, r, s) per configured batch size.
C1_RunsToCompletion ==
  (pc = "exit" /\ faults = 0 /\ ~setup_err) =>
    /\ exc = "none"
    /\ \A k \in ResultKeys :
         /\ Len(results[k].w) = Len(batch_sizes)
         /\ Len(results[k].r) = Len(batch_sizes)
         /\ Len(results[k].s) = Len(batch_sizes)

\* C2: in a batch iteration the dataset is generated once, with exactly N
\* records, and every strategy function called in it was handed that dataset,
\* which is still what main holds.
C2_Fairness ==
  pc \in {"run", "record", "exit"} =>
    /\ Len(gens) = batch
    /\ data = gens[batch]
    /\ Len(data) = batch_sizes[batch]
    /\ \A m \in Strategies : seen[m] # <<>> => seen[m] = gens[batch]

C2_Witness ==
  /\ pc = "run" /\ cur = "AES" /\ rpc = "returned"
  /\ Len(data) = 2 /\ data[1] # data[2]
  /\ seen["Baseline"] = data /\ seen["AES"] = data

\* C3: as long as the store has failed no statement, every write phase
\* starts on an empty table, the read phase selects exactly the rows written
\* for the batch, and main leaves the three tables empty behind it.
C3_NoCarryOver ==
  faults = 0 =>
    /\ rpc \in {"encrypt", "insert", "select"} \cup {"decode", "close", "returned"} =>
         table0 = <<>>
    /\ ReadPhase => fetched = Rows
    /\ pc = "exit" => AllTablesEmpty

\* C4: a row whose decode raises is skipped and nothing else: the read loop
\* goes on to every later row, and the function returns its two timings.
C4_SkipOnlyFailedRow ==
  /\ rpc = "decode" => Len(plain) = ridx - 1
  /\ failed # {} => rpc \in {"decode", "returned"}
  /\ \A j \in 1..Len(plain) : plain[j].ok <=> j \notin failed
  /\ (rpc = "returned" /\ cur # "Baseline") =>
       /\ Len(plain) = Len(fetched)
       /\ ret.write_ms >= 0 /\ ret.read_ms >= 0

C4_Witness ==
  /\ rpc = "returned" /\ cur = "Hybrid"
  /\ 1 \in failed /\ Len(plain) >= 3
  /\ plain[2].ok /\ plain[3].ok

\* C5: what a finished read phase hands back carries the number of rows whose
\* decode raised.
C5_SkipCountObservable ==
  (rpc = "returned" /\ cur # "Baseline") =>
    /\ "skipped" \in DOMAIN ret
    /\ ret.skipped = Cardinality(failed)

\* C6: after setup_database failed, no dataset is generated and no strategy
\* function is entered.
C6_SetupFailureFatal ==
  setup_err => (gens = <<>> /\ rpc = "idle" /\ \A m \in Strategies : seen[m] = <<>>)

\* C7: a function that has exited, normally or by an error, has closed the
\* connection it opened.
C7_ConnectionsReleased ==
  /\ rpc \in {"returned", "raised"} => "run" \notin conns
  /\ pc \in {"record", "exit"} => conns \cap {"run", "size", "reset"} = {}

\* C8: every row the write phase of the run stored decodes in the read phase
\* of the same run, to the UTF-8 bytes of the three texts of its record; a
\* stored cell is nonce (16 bytes), tag (16 bytes), ciphertext; Baseline rows
\* come back as the texts written.
C8_RoundTrip ==
  /\ \A j \in 1..Len(plain) :
       j > Len(table0) =>
         /\ plain[j].ok
         /\ \A f \in 1..3 : Utf8Decode(plain[j].val[f]) = data[j - Len(table0)][f]
  /\ \A j \in 1..Len(encrypted_rows) : \A f \in 1..3 :
       Len(encrypted_rows[j][f]) = TagEnd + Len(Utf8Encode(data[j][f]))
  /\ (ReadPhase /\ cur = "Baseline") => fetched = table0 \o data

C8_Witness ==
  /\ rpc = "returned" /\ cur = "Hybrid" /\ table0 = <<>>
  /\ Len(data) = 3 /\ Len(plain) = 3
  /\ encrypted_rows[1][4] # encrypted_rows[2][4]
  /\ \A j \in 1..3 : plain[j].ok

\* C9: every printed row has tps * w = count * 1000 when w > 0 and tps = 0
\* when w = 0, and no division by zero ends main.
C9_Tps ==
  /\ exc # "ZeroDivisionError"
  /\ \A j \in 1..Len(rows_out) :
       LET row == rows_out[j]
       IN  /\ row.tps.den # 0
           /\ row.w > 0 => row.tps.num * row.w = row.count * 1000 * row.tps.den
           /\ row.w = 0 => row.tps.num = 0

C9_Witness ==
  /\ pc = "exit" /\ exc = "none"
  /\ \E j, k \in 1..Len(rows_out) : rows_out[j].w = 0 /\ rows_out[k].w > 0

====
